---- MODULE Spec2Model ----
(***************************************************************************)
(* Payment gateway proxy: the charge pipeline of PaymentController         *)
(* (validation, risk assessment, routing, simulated outcome, explanation,  *)
(* ledger store, HTTP response) and the pure functions it is built from.   *)
(*                                                                         *)
(* Numbers are JavaScript numbers: a finite value is kept in thousandths   *)
(* (0.4 is Num(400)); NaN, +Infinity, -Infinity and undefined are kept as  *)
(* values of their own.  Strings that the code inspects character by       *)
(* character (email, source, currency) are sequences of one-character      *)
(* strings.                                                                *)
(***************************************************************************)
EXTENDS Integers, Sequences, FiniteSets, TLC

VARIABLES
    genAI,                \* GeminiService.genAI: TRUE when a client was constructed
    fallbackToSimulated,  \* GeminiService.config.fallbackToSimulated
    reqBody,              \* per request: req.body as received
    pc,                   \* per request: "idle", "awaiting" (external call in flight), "done"
    loc,                  \* per request: the locals of charge() that live across the await
    resp,                 \* per request: the HTTP responses sent, in order
    trace,                \* per request: the calls charge() made, in order
    ledger,               \* TransactionDataService.transactions (a Map, in insertion order)
    probe                 \* input and result of a pure function applied on its own

vars == <<genAI, fallbackToSimulated, reqBody, pc, loc, resp, trace, ledger, probe>>

-----------------------------------------------------------------------------
(* Bounds *)

NumRequests == 2          \* concurrent charge requests
ProbeScoreSpan == 200     \* routePayment is probed on -Span .. 1000+Span thousandths
MaxLedgerOps == 5         \* calls made on the ledger when it is driven on its own

-----------------------------------------------------------------------------
(* JavaScript numbers *)

Num(n) == [t |-> "num", v |-> n]
NaN == [t |-> "NaN", v |-> 0]
PosInfinity == [t |-> "Infinity", v |-> 0]
NegInfinity == [t |-> "-Infinity", v |-> 0]
Undefined == [t |-> "undefined", v |-> 0]

\* ToNumber(undefined) is NaN
ToNumber(a) == IF a.t = "undefined" THEN NaN ELSE a

\* a + b on numbers (operands converted with ToNumber)
JsAdd(a, b) ==
    LET x == ToNumber(a)
        y == ToNumber(b)
    IN  IF x.t = "NaN" \/ y.t = "NaN" THEN NaN
        ELSE IF x.t = "num" /\ y.t = "num" THEN Num(x.v + y.v)
        ELSE IF x.t = "num" THEN y
        ELSE IF y.t = "num" THEN x
        ELSE IF x.t = y.t THEN x
        ELSE NaN

\* a < b; every comparison with NaN is false
JsLt(a, b) ==
    LET x == ToNumber(a)
        y == ToNumber(b)
    IN  IF x.t = "NaN" \/ y.t = "NaN" THEN FALSE
        ELSE IF x.t = "num" /\ y.t = "num" THEN x.v < y.v
        ELSE IF x.t = "-Infinity" THEN y.t # "-Infinity"
        ELSE IF x.t = "Infinity" THEN FALSE
        ELSE y.t = "Infinity"

\* a <= b
JsLe(a, b) == JsLt(a, b) \/ (ToNumber(a).t # "NaN" /\ ToNumber(a) = ToNumber(b))

\* Math.min(a, b): NaN if either argument is NaN
MathMin(a, b) ==
    LET x == ToNumber(a)
        y == ToNumber(b)
    IN  IF x.t = "NaN" \/ y.t = "NaN" THEN NaN
        ELSE IF JsLt(x, y) THEN x ELSE y

\* obj.name: undefined when the object has no such property
GetProp(obj, name) == IF name \in DOMAIN obj THEN obj[name] ELSE Undefined

-----------------------------------------------------------------------------
(* Strings as sequences of characters *)

Lower ==
    [c \in {"A","B","C","D","E","F","G","H","I","J","K","L","M","N","O","P","Q",
            "R","S","T","U","V","W","X","Y","Z"} |->
        CASE c = "A" -> "a" [] c = "B" -> "b" [] c = "C" -> "c" [] c = "D" -> "d"
          [] c = "E" -> "e" [] c = "F" -> "f" [] c = "G" -> "g" [] c = "H" -> "h"
          [] c = "I" -> "i" [] c = "J" -> "j" [] c = "K" -> "k" [] c = "L" -> "l"
          [] c = "M" -> "m" [] c = "N" -> "n" [] c = "O" -> "o" [] c = "P" -> "p"
          [] c = "Q" -> "q" [] c = "R" -> "r" [] c = "S" -> "s" [] c = "T" -> "t"
          [] c = "U" -> "u" [] c = "V" -> "v" [] c = "W" -> "w" [] c = "X" -> "x"
          [] c = "Y" -> "y" [] c = "Z" -> "z"]

UpperLetters == DOMAIN Lower
LowerLetters == {Lower[c] : c \in UpperLetters}

\* String.prototype.toLowerCase
toLowerCase(s) == [i \in 1..Len(s) |-> IF s[i] \in UpperLetters THEN Lower[s[i]] ELSE s[i]]

\* String.prototype.toUpperCase
toUpperCase(s) ==
    [i \in 1..Len(s) |->
        IF s[i] \in LowerLetters THEN CHOOSE c \in UpperLetters : Lower[c] = s[i] ELSE s[i]]

\* String.prototype.includes
includes(s, sub) ==
    \E i \in 0..(Len(s) - Len(sub)) : SubSeq(s, i + 1, i + Len(sub)) = sub

\* a non-empty run of characters that are neither whitespace nor "@": [^\s@]+
NoSpaceAt(s) == Len(s) > 0 /\ \A i \in 1..Len(s) : s[i] \notin {" ", "@"}

\* /^[^\s@]+@[^\s@]+\.[^\s@]+$/.test(s)
emailRegexTest(s) ==
    \E i \in 1..Len(s) : \E j \in (i + 1)..Len(s) :
        /\ s[i] = "@"
        /\ s[j] = "."
        /\ NoSpaceAt(SubSeq(s, 1, i - 1))
        /\ NoSpaceAt(SubSeq(s, i + 1, j - 1))
        /\ NoSpaceAt(SubSeq(s, j + 1, Len(s)))

-----------------------------------------------------------------------------
(* config/fraudRules.ts *)

suspiciousDomains ==
    << <<".", "r", "u">>, <<".", "t", "k">>, <<".", "m", "l">>,
       <<"t", "e", "s", "t", ".", "c", "o", "m">>,
       <<"1", "0", "m", "i", "n", "u", "t", "e", "m", "a", "i", "l">>,
       <<"m", "a", "i", "l", "i", "n", "a", "t", "o", "r">> >>

\* the catalog, in declaration order; each entry has ruleName and weight
fraudRules ==
    << [ruleName |-> "Large Amount", weight |-> Num(300)],
       [ruleName |-> "Very Large Amount", weight |-> Num(400)],
       [ruleName |-> "Suspicious Domain", weight |-> Num(400)],
       [ruleName |-> "Invalid Email Format", weight |-> Num(200)],
       [ruleName |-> "Test Token", weight |-> Num(100)] >>

\* variant: Large Amount without its upper limit
condition_noUpperLimit(i, request) ==
    CASE i = 1 -> request.amount > 50000
      [] i = 2 -> request.amount > 100000
      [] i = 3 -> \E d \in 1..Len(suspiciousDomains) :
                      includes(toLowerCase(request.email), suspiciousDomains[d])
      [] i = 4 -> ~emailRegexTest(request.email)
      [] i = 5 -> includes(request.source, <<"t", "e", "s", "t">>)

\* variant: Very Large Amount from 100000 on
condition_veryLargeInclusive(i, request) ==
    CASE i = 1 -> request.amount > 50000 /\ request.amount < 100000
      [] i = 2 -> request.amount >= 100000
      [] i = 3 -> \E d \in 1..Len(suspiciousDomains) :
                      includes(toLowerCase(request.email), suspiciousDomains[d])
      [] i = 4 -> ~emailRegexTest(request.email)
      [] i = 5 -> includes(request.source, <<"t", "e", "s", "t">>)

\* rule.condition(request) of the rule at position i of the catalog
condition(i, request) ==
    CASE i = 1 -> request.amount > 50000 /\ request.amount < 100000
      [] i = 2 -> request.amount > 100000
      [] i = 3 -> \E d \in 1..Len(suspiciousDomains) :
                      includes(toLowerCase(request.email), suspiciousDomains[d])
      [] i = 4 -> ~emailRegexTest(request.email)
      [] i = 5 -> includes(request.source, <<"t", "e", "s", "t">>)

providerConfig ==
    [stripe |-> [name |-> "Stripe", maxRiskScore |-> Num(400)],
     paypal |-> [name |-> "PayPal", maxRiskScore |-> Num(500)]]

-----------------------------------------------------------------------------
(* services/riskAssessment.ts *)

\* the property of a rule that calculateRisk adds to the running total
RuleScore(rule) == GetProp(rule, "riskScore")

\* the for-loop of calculateRisk from catalog position i on
RECURSIVE RiskLoop(_, _, _)
RiskLoop(i, acc, request) ==
    IF i > Len(fraudRules) THEN acc
    ELSE IF condition(i, request)
         THEN RiskLoop(i + 1,
                       [totalScore |-> JsAdd(acc.totalScore, RuleScore(fraudRules[i])),
                        triggeredRules |-> Append(acc.triggeredRules, fraudRules[i].ruleName)],
                       request)
         ELSE RiskLoop(i + 1, acc, request)

calculateRisk(request) ==
    LET r == RiskLoop(1, [totalScore |-> Num(0), triggeredRules |-> <<>>], request)
    IN  [score |-> MathMin(r.totalScore, Num(1000)), triggeredRules |-> r.triggeredRules]

-----------------------------------------------------------------------------
(* services/paymentRouter.ts *)

NULL == "null"

\* variant: the thresholds compared with <= instead of <
routePayment_inclusive(riskScore) ==
    IF JsLe(riskScore, providerConfig.stripe.maxRiskScore) THEN "stripe"
    ELSE IF JsLe(riskScore, providerConfig.paypal.maxRiskScore) THEN "paypal"
    ELSE NULL

\* variant: the bands written as negated >= tests, which NaN passes
routePayment_negated(riskScore) ==
    IF ~JsLe(providerConfig.stripe.maxRiskScore, riskScore) THEN "stripe"
    ELSE IF ~JsLe(providerConfig.paypal.maxRiskScore, riskScore) THEN "paypal"
    ELSE NULL

routePayment(riskScore) ==
    IF JsLt(riskScore, providerConfig.stripe.maxRiskScore) THEN "stripe"
    ELSE IF JsLt(riskScore, providerConfig.paypal.maxRiskScore) THEN "paypal"
    ELSE NULL

-----------------------------------------------------------------------------
(* utils/validation.ts: chargeRequestSchema *)

\* a body field is <<>> when absent and <<v>> when present
EmptyBody == [amount |-> <<>>, currency |-> <<>>, source |-> <<>>, email |-> <<>>]
\* req.body is undefined
UndefinedBody == [amount |-> <<>>, currency |-> <<>>, source |-> <<>>, email |-> <<>>,
                  undefined |-> TRUE]

\* req.body || {}
BodyOrEmpty(body) == IF "undefined" \in DOMAIN body THEN EmptyBody ELSE body

\* Joi.string().email(): local@domain with at least two domain segments and an alphabetic TLD
JoiEmail(s) ==
    /\ emailRegexTest(s)
    /\ \E j \in 1..Len(s) :
          /\ s[j] = "."
          /\ Len(s) - j >= 2
          /\ \A k \in (j + 1)..Len(s) : s[k] \in UpperLetters \cup LowerLetters

\* the fields of the body that fail the schema (abortEarly: false reports all of them)
SchemaErrors(b) ==
    {f \in {"amount", "currency", "source", "email"} :
        \/ b[f] = <<>>
        \/ f = "amount" /\ (b.amount[1] < 1 \/ b.amount[1] > 1000000)
        \/ f = "currency" /\ Len(b.currency[1]) # 3
        \/ f = "source" /\ (Len(b.source[1]) < 1 \/ Len(b.source[1]) > 100)
        \/ f = "email" /\ (Len(b.email[1]) > 254 \/ ~JoiEmail(b.email[1]))}

\* the value Joi returns: present fields, the currency converted to upper case
SchemaValue(b) ==
    [amount |-> IF b.amount = <<>> THEN 0 ELSE b.amount[1],
     currency |-> IF b.currency = <<>> THEN <<>> ELSE toUpperCase(b.currency[1]),
     source |-> IF b.source = <<>> THEN <<>> ELSE b.source[1],
     email |-> IF b.email = <<>> THEN <<>> ELSE b.email[1]]

\* chargeRequestSchema.validate(body, { abortEarly: false })
chargeRequestSchema(b) == [error |-> SchemaErrors(b), value |-> SchemaValue(b)]

-----------------------------------------------------------------------------
(* utils/helpers.ts *)

\* Intl.NumberFormat throws a RangeError unless the currency is three letters
formatAmount(amount, currency) ==
    IF Len(currency) = 3 /\ \A i \in 1..3 : currency[i] \in UpperLetters \cup LowerLetters
    THEN [thrown |-> FALSE,
          value |-> [currency |-> toUpperCase(currency), units |-> amount, fraction |-> 0]]
    ELSE [thrown |-> TRUE,
          value |-> [currency |-> <<>>, units |-> 0, fraction |-> 0]]

\* generateTransactionId draws nine random base-36 characters
TransactionIds == {"txn_aaaaaaaaa", "txn_bbbbbbbbb"}

-----------------------------------------------------------------------------
(* services/geminiService.ts *)

NoAmount == [currency |-> <<>>, units |-> 0, fraction |-> 0]

NoExplanation ==
    [source |-> "none", template |-> "none", amountFormatted |-> NoAmount,
     riskScore |-> Num(0), riskLevel |-> "", provider |-> NULL, rules |-> <<>>]

\* the text of a non-empty answer of the generative model
GeminiText == [NoExplanation EXCEPT !.source = "gemini"]

\* the errors an explanation call can end with
NoError == ""
InvalidCurrencyCode == "RangeError: Invalid currency code"
LLMUnavailable == "LLM service unavailable and fallback disabled"

\* a settled explanation call: the string returned, or the error thrown
Return(explanation) == [thrown |-> FALSE, value |-> explanation, error |-> NoError]
Throw(error) == [thrown |-> TRUE, value |-> NoExplanation, error |-> error]

\* variant: the blocked template without the risk factors
generateSimulatedExplanation_blockedNoRules(request, riskScore, provider, status, triggeredRules) ==
    LET f == formatAmount(request.amount, request.currency)
        base == [NoExplanation EXCEPT !.source = "simulated", !.template = status,
                                      !.amountFormatted = f.value, !.riskScore = riskScore]
    IN  IF f.thrown THEN Throw(InvalidCurrencyCode)
        ELSE IF status = "blocked"
             THEN Return(base)
        ELSE IF status = "success"
             THEN Return([base EXCEPT
                       !.riskLevel = IF JsLe(riskScore, Num(200)) THEN "low"
                                     ELSE IF JsLe(riskScore, Num(300)) THEN "minimal"
                                     ELSE "moderate",
                       !.provider = provider,
                       !.rules = triggeredRules])
        ELSE Return(base)

\* generateSimulatedExplanation: the templated explanation, or the throw of formatAmount
generateSimulatedExplanation(request, riskScore, provider, status, triggeredRules) ==
    LET f == formatAmount(request.amount, request.currency)
        base == [NoExplanation EXCEPT !.source = "simulated", !.template = status,
                                      !.amountFormatted = f.value, !.riskScore = riskScore]
    IN  IF f.thrown THEN Throw(InvalidCurrencyCode)
        ELSE IF status = "blocked"
             THEN Return([base EXCEPT !.rules = triggeredRules])
        ELSE IF status = "success"
             THEN Return([base EXCEPT
                       !.riskLevel = IF JsLe(riskScore, Num(200)) THEN "low"
                                     ELSE IF JsLe(riskScore, Num(300)) THEN "minimal"
                                     ELSE "moderate",
                       !.provider = provider,
                       !.rules = triggeredRules])
        ELSE Return(base)

\* buildPrompt throws exactly when formatAmount does
buildPromptThrows(request) == formatAmount(request.amount, request.currency).thrown

\* variant: the catch block falls back whatever the flag says
OnGeminiFailure_alwaysFallback(fallback, request, riskScore, provider, status, triggeredRules) ==
    generateSimulatedExplanation(request, riskScore, provider, status, triggeredRules)

\* the catch block of generateDescriptionFromTags (lines 73-81)
OnGeminiFailure(fallback, request, riskScore, provider, status, triggeredRules) ==
    IF fallback
    THEN generateSimulatedExplanation(request, riskScore, provider, status, triggeredRules)
    ELSE Throw(LLMUnavailable)

\* lines 59-71: the explanation once generateDescription has returned `text`
OnGeminiText(text, request, riskScore, provider, status, triggeredRules) ==
    IF text = "" 
    THEN generateSimulatedExplanation(request, riskScore, provider, status, triggeredRules)
    ELSE Return(GeminiText)

-----------------------------------------------------------------------------
(* services/transactionDataService.ts *)

\* variant: the first record stored under an id is kept
storeTransaction_keepFirst(led, t) ==
    IF \E i \in 1..Len(led) : led[i].id = t.id
    THEN led
    ELSE Append(led, t)

\* variant: every store adds an entry
storeTransaction_append(led, t) ==
    Append(led, t)

\* variant: a stored id is removed and its new record goes last
storeTransaction_moveToEnd(led, t) ==
    Append(SelectSeq(led, LAMBDA u : u.id # t.id), t)

\* Map.prototype.set: an existing key keeps its position, a new key goes last
storeTransaction(led, t) ==
    IF \E i \in 1..Len(led) : led[i].id = t.id
    THEN [i \in 1..Len(led) |-> IF led[i].id = t.id THEN t ELSE led[i]]
    ELSE Append(led, t)

\* Map.prototype.has
hasTransaction(led, id) == \E i \in 1..Len(led) : led[i].id = id

\* Map.prototype.get: <<t>> for the record found, <<>> for undefined
getTransactionById(led, id) ==
    IF hasTransaction(led, id)
    THEN <<led[CHOOSE i \in 1..Len(led) : led[i].id = id]>>
    ELSE <<>>

\* Array.from(this.transactions.values()): the records in insertion order
getAllTransactions(led) == [i \in 1..Len(led) |-> led[i]]

\* Map.prototype.size
getTransactionCount(led) == Len(led)

\* variant: reports a deletion whether or not the id was stored
deleteTransaction_reportAlways(led, id) ==
    [transactions |-> SelectSeq(led, LAMBDA u : u.id # id), returned |-> TRUE]

\* variant: the last record is moved into the place of the deleted one
deleteTransaction_swapLast(led, id) ==
    [transactions |->
        IF hasTransaction(led, id)
        THEN LET k == CHOOSE i \in 1..Len(led) : led[i].id = id
             IN  [i \in 1..(Len(led) - 1) |-> IF i = k THEN led[Len(led)] ELSE led[i]]
        ELSE led,
     returned |-> hasTransaction(led, id)]

\* Map.prototype.delete: the entry is removed, the others keep their order;
\* returns whether the key was present
deleteTransaction(led, id) ==
    [transactions |-> SelectSeq(led, LAMBDA u : u.id # id),
     returned |-> hasTransaction(led, id)]

\* Map.prototype.clear
clearAllTransactions(led) == <<>>

-----------------------------------------------------------------------------
(* Inputs *)

Requests == 1..NumRequests

usd == <<"U", "S", "D">>
user_example_com ==
    <<"u", "s", "e", "r", "@", "e", "x", "a", "m", "p", "l", "e", ".", "c", "o", "m">>
user_test_com == <<"u", "s", "e", "r", "@", "t", "e", "s", "t", ".", "c", "o", "m">>
user_mailinator_com ==
    <<"u", "s", "e", "r", "@", "m", "a", "i", "l", "i", "n", "a", "t", "o", "r", ".", "c", "o", "m">>
u_x_RU == <<"u", "@", "x", ".", "R", "U">>
invalid_email == <<"i", "n", "v", "a", "l", "i", "d", "-", "e", "m", "a", "i", "l">>
a_b_c_d == <<"a", " ", "b", "@", "c", ".", "d">>
user_at == <<"u", "s", "e", "r", "@">>
card_123 == <<"c", "a", "r", "d", "_", "1", "2", "3">>
test_token_123 == <<"t", "e", "s", "t", "_", "t", "o", "k", "e", "n", "_", "1", "2", "3">>
TEST_1 == <<"T", "E", "S", "T", "_", "1">>

Body(a, c, s, e) == [amount |-> <<a>>, currency |-> <<c>>, source |-> <<s>>, email |-> <<e>>]

\* request bodies that pass the schema: no rule, one rule, a currency Intl rejects,
\* a lower-case currency that Joi converts
ValidBodies ==
    {Body(1000, usd, card_123, user_example_com),
     Body(60000, usd, card_123, user_example_com),
     Body(1000, <<"1", "2", "3">>, card_123, user_example_com),
     Body(1000, <<"u", "s", "d">>, test_token_123, user_example_com)}

\* request bodies that fail the schema
InvalidBodies ==
    {UndefinedBody,
     Body(60000, usd, card_123, invalid_email)}

Bodies == ValidBodies \cup InvalidBodies

\* what generateContent can answer: a text, or nothing; it can also throw
GeminiAnswers == {"", "text"}

NoRequest == [amount |-> 0, currency |-> <<>>, source |-> <<>>, email |-> <<>>]

NoLoc ==
    [chargeRequest |-> NoRequest,
     riskAssessment |-> [score |-> Num(0), triggeredRules |-> <<>>],
     transactionId |-> "",
     provider |-> NULL,
     status |-> "blocked",
     error |-> NoError]

NoChargeResponse ==
    [transactionId |-> "", provider |-> NULL, status |-> "blocked",
     riskScore |-> Num(0), explanation |-> NoExplanation]

-----------------------------------------------------------------------------
(* controllers/paymentController.ts: charge *)

\* variant: the status taken from the simulated outcome alone
ChargeStatus_unguarded(provider, paymentSuccess) ==
    IF paymentSuccess THEN "success" ELSE "error"

\* lines 49-54: the status from the routing result and the simulated outcome
ChargeStatus(provider, paymentSuccess) ==
    IF provider # NULL
    THEN IF paymentSuccess THEN "success" ELSE "error"
    ELSE "blocked"

\* variant: simulatePayment called outside the `if (provider)`
SimulateCalls_always(provider) == <<"simulatePayment">>

\* lines 51-52: simulatePayment is called inside `if (provider)`
SimulateCalls(provider) == IF provider # NULL THEN <<"simulatePayment">> ELSE <<>>

\* variant: only an amount error stops the request
Rejects_amountOnly(v) == "amount" \in v.error

\* line 30: `if (error)`
Rejects(v) == v.error # {}

\* variant: every status but success answered 403
StatusCode_twoWay(status) == IF status = "success" THEN 200 ELSE 403

\* line 89
StatusCode(status) == IF status = "success" THEN 200 ELSE IF status = "blocked" THEN 403 ELSE 500

\* lines 34-38
InvalidResponse == [code |-> 400, kind |-> "invalid", body |-> NoChargeResponse]

\* variant: the catch block answering as for an invalid request
InternalErrorResponse_badRequest == [code |-> 400, kind |-> "internal", body |-> NoChargeResponse]

\* lines 91-96: the catch block
InternalErrorResponse == [code |-> 500, kind |-> "internal", body |-> NoChargeResponse]

\* variant: the response sent before the store
TailCalls_respondFirst == <<"respond", "storeTransaction">>

\* lines 58-90 in the order the code runs them: assemble, store, respond
TailCalls == <<"storeTransaction", "respond">>

\* variant: the record is assembled before the explanation is put in the response
Complete_storesWithoutExplanation(r, l, explanation, before) ==
    LET chargeResponse ==
            [transactionId |-> l.transactionId, provider |-> l.provider,
             status |-> l.status, riskScore |-> l.riskAssessment.score,
             explanation |-> explanation]
        transactionData ==
            [id |-> l.transactionId, request |-> l.chargeRequest,
             response |-> [chargeResponse EXCEPT !.explanation = NoExplanation],
             metadata |-> [ipAddress |-> r]]
    IN  /\ ledger' = storeTransaction(ledger, transactionData)
        /\ resp' = [resp EXCEPT ![r] = Append(@,
                        [code |-> StatusCode(l.status), kind |-> "charge",
                         body |-> chargeResponse])]
        /\ trace' = [trace EXCEPT ![r] = @ \o before \o <<"explanationResolved">> \o TailCalls]
        /\ loc' = [loc EXCEPT ![r] = l]
        /\ pc' = [pc EXCEPT ![r] = "done"]

\* the explanation has arrived: lines 58-90
Complete(r, l, explanation, before) ==
    LET chargeResponse ==
            [transactionId |-> l.transactionId, provider |-> l.provider,
             status |-> l.status, riskScore |-> l.riskAssessment.score,
             explanation |-> explanation]
        transactionData ==
            [id |-> l.transactionId, request |-> l.chargeRequest,
             response |-> chargeResponse, metadata |-> [ipAddress |-> r]]
    IN  /\ ledger' = storeTransaction(ledger, transactionData)
        /\ resp' = [resp EXCEPT ![r] = Append(@,
                        [code |-> StatusCode(l.status), kind |-> "charge",
                         body |-> chargeResponse])]
        /\ trace' = [trace EXCEPT ![r] = @ \o before \o <<"explanationResolved">> \o TailCalls]
        /\ loc' = [loc EXCEPT ![r] = l]
        /\ pc' = [pc EXCEPT ![r] = "done"]

\* variant: the catch block logs the error and sends nothing
Fail_silent(r, l, error, before) ==
    /\ resp' = resp
    /\ trace' = [trace EXCEPT ![r] = @ \o before \o <<"explanationRejected">>]
    /\ loc' = [loc EXCEPT ![r] = [l EXCEPT !.error = error]]
    /\ pc' = [pc EXCEPT ![r] = "done"]
    /\ UNCHANGED ledger

\* the await of line 56 threw: lines 91-96
Fail(r, l, error, before) ==
    /\ resp' = [resp EXCEPT ![r] = Append(@, InternalErrorResponse)]
    /\ trace' = [trace EXCEPT ![r] = @ \o before \o <<"explanationRejected", "respond">>]
    /\ loc' = [loc EXCEPT ![r] = [l EXCEPT !.error = error]]
    /\ pc' = [pc EXCEPT ![r] = "done"]
    /\ UNCHANGED ledger

\* the calls of lines 43-56 up to the explanation
PipelineCalls(provider) ==
    <<"validate", "calculateRisk", "generateTransactionId", "routePayment">>
        \o SimulateCalls(provider) \o <<"generateDescriptionFromTags">>

\* line 28 for each body the model sends, evaluated once
Validated == [b \in Bodies \cup {EmptyBody} |-> chargeRequestSchema(BodyOrEmpty(b))]

\* line 43 for each body the model sends, evaluated once
Assessed == [b \in Bodies \cup {EmptyBody} |-> calculateRisk(Validated[b].value)]

\* POST /charge arrives: lines 28-56, up to the first real suspension
ChargeBegin(r, body, tid, paymentSuccess) ==
    /\ pc[r] = "idle"
    /\ reqBody' = [reqBody EXCEPT ![r] = body]
    /\ UNCHANGED <<genAI, fallbackToSimulated, probe>>
    /\ LET v == Validated[body]
           chargeRequest == v.value
           riskAssessment == Assessed[body]
           provider == routePayment(riskAssessment.score)
           status == ChargeStatus(provider, paymentSuccess)
           l == [chargeRequest |-> chargeRequest, riskAssessment |-> riskAssessment,
                 transactionId |-> tid, provider |-> provider, status |-> status,
                 error |-> NoError]
           sim == generateSimulatedExplanation(chargeRequest, riskAssessment.score,
                                               provider, status, riskAssessment.triggeredRules)
           caught == OnGeminiFailure(fallbackToSimulated, chargeRequest, riskAssessment.score,
                                     provider, status, riskAssessment.triggeredRules)
       IN  IF Rejects(v)
           THEN /\ resp' = [resp EXCEPT ![r] = Append(@, InvalidResponse)]
                /\ trace' = [trace EXCEPT ![r] = <<"validate", "respond">>]
                /\ pc' = [pc EXCEPT ![r] = "done"]
                /\ UNCHANGED <<loc, ledger>>
           ELSE IF ~genAI
           THEN \* line 83: no client, the templated explanation
                IF sim.thrown
                THEN Fail(r, l, sim.error, PipelineCalls(provider))
                ELSE Complete(r, l, sim.value, PipelineCalls(provider))
           ELSE IF buildPromptThrows(chargeRequest)
           THEN \* generateDescription rejects before the external call; lines 73-81
                IF caught.thrown
                THEN Fail(r, l, caught.error, PipelineCalls(provider))
                ELSE Complete(r, l, caught.value, PipelineCalls(provider))
           ELSE \* line 109: the external call is in flight
                /\ pc' = [pc EXCEPT ![r] = "awaiting"]
                /\ loc' = [loc EXCEPT ![r] = l]
                /\ trace' = [trace EXCEPT ![r] = PipelineCalls(provider) \o <<"generateContent">>]
                /\ UNCHANGED <<resp, ledger>>

\* generateContent resolves: lines 114, 60-71, then 58-90
GeminiResolve(r, text) ==
    /\ pc[r] = "awaiting"
    /\ UNCHANGED <<genAI, fallbackToSimulated, reqBody, probe>>
    /\ LET l == loc[r]
           e == OnGeminiText(text, l.chargeRequest, l.riskAssessment.score, l.provider,
                             l.status, l.riskAssessment.triggeredRules)
       IN  IF e.thrown THEN Fail(r, l, e.error, <<>>) ELSE Complete(r, l, e.value, <<>>)

\* generateContent throws: lines 117-119, 73-81, then 58-90 or 91-96
GeminiReject(r) ==
    /\ pc[r] = "awaiting"
    /\ UNCHANGED <<genAI, fallbackToSimulated, reqBody, probe>>
    /\ LET l == loc[r]
           e == OnGeminiFailure(fallbackToSimulated, l.chargeRequest, l.riskAssessment.score,
                                l.provider, l.status, l.riskAssessment.triggeredRules)
       IN  IF e.thrown THEN Fail(r, l, e.error, <<>>) ELSE Complete(r, l, e.value, <<>>)

-----------------------------------------------------------------------------
(* The server: any number of charge requests in flight *)

NoProbe ==
    [kind |-> "none", request |-> NoRequest, score |-> Num(0),
     risk |-> [score |-> Num(0), triggeredRules |-> <<>>], provider |-> NULL]

Init ==
    /\ genAI \in BOOLEAN
    /\ fallbackToSimulated \in BOOLEAN
    /\ reqBody = [r \in Requests |-> EmptyBody]
    /\ pc = [r \in Requests |-> "idle"]
    /\ loc = [r \in Requests |-> NoLoc]
    /\ resp = [r \in Requests |-> <<>>]
    /\ trace = [r \in Requests |-> <<>>]
    /\ ledger = <<>>
    /\ probe = NoProbe

Begin == \E r \in Requests, body \in Bodies, tid \in TransactionIds, ok \in BOOLEAN :
             ChargeBegin(r, body, tid, ok)
Resolve == \E r \in Requests, text \in GeminiAnswers : GeminiResolve(r, text)
Reject == \E r \in Requests : GeminiReject(r)

Next == Begin \/ Resolve \/ Reject

Spec == Init /\ [][Next]_vars

\* the promise of generateContent settles: it resolves or it rejects
Settle(r) == (\E text \in GeminiAnswers : GeminiResolve(r, text)) \/ GeminiReject(r)

\* the server when every external call in flight eventually settles
SpecLive == Spec /\ \A r \in Requests : WF_vars(Settle(r))

-----------------------------------------------------------------------------
(* The controller with injected services that can throw *)

\* the error of a service double that throws
ServiceError == "Error: injected service error"

\* the synchronous calls of charge() a service double can throw from
ThrowingSteps == {"calculateRisk", "routePayment", "simulatePayment"}

\* the calls made up to and including the one that throws
CallsUpTo(step) ==
    CASE step = "calculateRisk" -> <<"validate", "calculateRisk">>
      [] step = "routePayment" ->
            <<"validate", "calculateRisk", "generateTransactionId", "routePayment">>
      [] step = "simulatePayment" ->
            <<"validate", "calculateRisk", "generateTransactionId", "routePayment",
              "simulatePayment">>

\* charge() when the call `step` throws: lines 28-54 up to that call, then 91-96
ChargeServiceThrows(r, body, tid, step) ==
    /\ pc[r] = "idle"
    /\ ~Rejects(Validated[body])
    /\ step = "simulatePayment" => routePayment(Assessed[body].score) # NULL
    /\ reqBody' = [reqBody EXCEPT ![r] = body]
    /\ resp' = [resp EXCEPT ![r] = Append(@, InternalErrorResponse)]
    /\ trace' = [trace EXCEPT ![r] = CallsUpTo(step) \o <<"threw", "respond">>]
    /\ loc' = [loc EXCEPT ![r] =
                  [NoLoc EXCEPT
                      !.chargeRequest = Validated[body].value,
                      !.riskAssessment = IF step = "calculateRisk" THEN NoLoc.riskAssessment
                                         ELSE Assessed[body],
                      !.transactionId = IF step = "calculateRisk" THEN "" ELSE tid,
                      !.provider = IF step = "simulatePayment"
                                   THEN routePayment(Assessed[body].score) ELSE NULL,
                      !.error = ServiceError]]
    /\ pc' = [pc EXCEPT ![r] = "done"]
    /\ UNCHANGED <<genAI, fallbackToSimulated, ledger, probe>>

\* the explanation resolves and storeTransaction throws: lines 58-77, then 91-96
ChargeStoreThrows(r, text) ==
    /\ pc[r] = "awaiting"
    /\ ~OnGeminiText(text, loc[r].chargeRequest, loc[r].riskAssessment.score,
                     loc[r].provider, loc[r].status,
                     loc[r].riskAssessment.triggeredRules).thrown
    /\ resp' = [resp EXCEPT ![r] = Append(@, InternalErrorResponse)]
    /\ trace' = [trace EXCEPT ![r] =
                    @ \o <<"explanationResolved", "storeTransaction", "threw", "respond">>]
    /\ loc' = [loc EXCEPT ![r].error = ServiceError]
    /\ pc' = [pc EXCEPT ![r] = "done"]
    /\ UNCHANGED <<genAI, fallbackToSimulated, reqBody, ledger, probe>>

ServiceThrows == \E r \in Requests, body \in Bodies, tid \in TransactionIds, step \in ThrowingSteps :
                     ChargeServiceThrows(r, body, tid, step)
StoreThrows == \E r \in Requests, text \in GeminiAnswers : ChargeStoreThrows(r, text)

NextFaults == Begin \/ Resolve \/ Reject \/ ServiceThrows \/ StoreThrows

\* a client is configured and the fallback is disabled, so that the
\* explanation call can throw as well
InitFaults == Init /\ genAI /\ ~fallbackToSimulated

SpecFaults == InitFaults /\ [][NextFaults]_vars

-----------------------------------------------------------------------------
(* The pure functions applied on their own *)

ProbeAmounts == {1, 1000, 50000, 50001, 60000, 99999, 100000, 100001, 150000, 1000000}
ProbeEmails ==
    {user_example_com, user_test_com, user_mailinator_com, u_x_RU, invalid_email,
     a_b_c_d, user_at}
ProbeSources == {card_123, test_token_123, TEST_1}

ProbeRequests ==
    {[amount |-> a, currency |-> usd, source |-> s, email |-> e] :
        a \in ProbeAmounts, s \in ProbeSources, e \in ProbeEmails}

ProbeScores ==
    {Num(n) : n \in (0 - ProbeScoreSpan)..(1000 + ProbeScoreSpan)}
        \cup {NaN, PosInfinity, NegInfinity}

Quiet ==
    /\ genAI = FALSE
    /\ fallbackToSimulated = TRUE
    /\ reqBody = [r \in Requests |-> EmptyBody]
    /\ pc = [r \in Requests |-> "idle"]
    /\ loc = [r \in Requests |-> NoLoc]
    /\ resp = [r \in Requests |-> <<>>]
    /\ trace = [r \in Requests |-> <<>>]
    /\ ledger = <<>>

InitRisk ==
    /\ Quiet
    /\ probe \in {[NoProbe EXCEPT !.kind = "riskIn", !.request = q] : q \in ProbeRequests}

\* riskService.calculateRisk(request)
RiskProbe ==
    /\ probe.kind = "riskIn"
    /\ probe' = [probe EXCEPT !.kind = "riskOut", !.risk = calculateRisk(probe.request)]
    /\ UNCHANGED <<genAI, fallbackToSimulated, reqBody, pc, loc, resp, trace, ledger>>

SpecRisk == InitRisk /\ [][RiskProbe]_vars

InitRoute ==
    /\ Quiet
    /\ probe \in {[NoProbe EXCEPT !.kind = "routeIn", !.score = x] : x \in ProbeScores}

\* paymentRouterService.routePayment(score)
RouteProbe ==
    /\ probe.kind = "routeIn"
    /\ probe' = [probe EXCEPT !.kind = "routeOut", !.provider = routePayment(probe.score)]
    /\ UNCHANGED <<genAI, fallbackToSimulated, reqBody, pc, loc, resp, trace, ledger>>

SpecRoute == InitRoute /\ [][RouteProbe]_vars

-----------------------------------------------------------------------------
(* The ledger driven on its own: any sequence of its operations *)

LedgerIds == {"txn-1", "txn-2", "txn-3"}
LedgerStatuses == {"success", "error"}

LedgerTransaction(id, status) ==
    [id |-> id, request |-> NoRequest,
     response |-> [NoChargeResponse EXCEPT !.transactionId = id, !.status = status],
     metadata |-> [ipAddress |-> 0]]

LedgerTransactions == {LedgerTransaction(id, st) : id \in LedgerIds, st \in LedgerStatuses}

\* the last call, what it returned, the Map before it, and counts over the
\* calls made so far
NoLedgerCall ==
    [kind |-> "ledger", op |-> "none", t |-> LedgerTransaction("", "blocked"), id |-> "",
     returnedT |-> <<>>, returnedB |-> FALSE, before |-> <<>>,
     everStored |-> {}, inserted |-> 0, deleteCalls |-> 0, removed |-> 0,
     cleared |-> FALSE, calls |-> 0]

InitLedger ==
    /\ Quiet
    /\ probe = NoLedgerCall

\* transactionDataService.storeTransaction(t)
LedgerStore ==
    \E t \in LedgerTransactions :
        /\ probe.calls < MaxLedgerOps
        /\ ledger' = storeTransaction(ledger, t)
        /\ probe' = [probe EXCEPT !.op = "store", !.t = t, !.id = t.id,
                                   !.returnedT = <<t>>, !.before = ledger,
                                   !.everStored = @ \cup {t.id},
                                   !.inserted = IF hasTransaction(ledger, t.id) THEN @ ELSE @ + 1,
                                   !.calls = @ + 1]
        /\ UNCHANGED <<genAI, fallbackToSimulated, reqBody, pc, loc, resp, trace>>

\* transactionDataService.deleteTransaction(id)
LedgerDelete ==
    \E id \in LedgerIds :
        LET d == deleteTransaction(ledger, id)
        IN  /\ probe.calls < MaxLedgerOps
            /\ ledger' = d.transactions
            /\ probe' = [probe EXCEPT !.op = "delete", !.id = id,
                                       !.returnedB = d.returned, !.before = ledger,
                                       !.deleteCalls = @ + 1,
                                       !.removed = IF d.returned THEN @ + 1 ELSE @,
                                       !.calls = @ + 1]
            /\ UNCHANGED <<genAI, fallbackToSimulated, reqBody, pc, loc, resp, trace>>

\* transactionDataService.clearAllTransactions()
LedgerClear ==
    /\ probe.calls < MaxLedgerOps
    /\ ledger' = clearAllTransactions(ledger)
    /\ probe' = [probe EXCEPT !.op = "clear", !.before = ledger, !.cleared = TRUE,
                               !.calls = @ + 1]
    /\ UNCHANGED <<genAI, fallbackToSimulated, reqBody, pc, loc, resp, trace>>

NextLedger == LedgerStore \/ LedgerDelete \/ LedgerClear

SpecLedger == InitLedger /\ [][NextLedger]_vars

-----------------------------------------------------------------------------
(* The templated explanation applied on its own *)

ExplainRequests ==
    {[amount |-> 1000, currency |-> usd, source |-> card_123,
      email |-> user_example_com],
     [amount |-> 60000, currency |-> <<"u", "s", "d">>, source |-> test_token_123,
      email |-> user_test_com],
     [amount |-> 1000, currency |-> <<"1", "2", "3">>, source |-> card_123,
      email |-> user_example_com]}
ExplainScores == {Num(0), Num(200), Num(201), Num(300), Num(301), Num(900), NaN}
ExplainProviders == {"stripe", "paypal", NULL}
ExplainStatuses == {"blocked", "success", "error"}
ExplainRules == {<<>>, <<"Large Amount">>, <<"Very Large Amount", "Suspicious Domain", "Test Token">>}

NoExplainCall ==
    [kind |-> "explainIn", request |-> NoRequest, score |-> Num(0), provider |-> NULL,
     status |-> "blocked", rules |-> <<>>, result |-> Throw(NoError)]

InitExplain ==
    /\ Quiet
    /\ probe \in {[NoExplainCall EXCEPT !.request = q, !.score = x, !.provider = p,
                                        !.status = st, !.rules = tr] :
                      q \in ExplainRequests, x \in ExplainScores, p \in ExplainProviders,
                      st \in ExplainStatuses, tr \in ExplainRules}

\* generateSimulatedExplanation(request, riskScore, provider, status, triggeredRules)
ExplainProbe ==
    /\ probe.kind = "explainIn"
    /\ probe' = [probe EXCEPT !.kind = "explainOut",
                               !.result = generateSimulatedExplanation(
                                              probe.request, probe.score, probe.provider,
                                              probe.status, probe.rules)]
    /\ UNCHANGED <<genAI, fallbackToSimulated, reqBody, pc, loc, resp, trace, ledger>>

SpecExplain == InitExplain /\ [][ExplainProbe]_vars

-----------------------------------------------------------------------------
(* Properties *)

Count(seq, e) == Cardinality({i \in 1..Len(seq) : seq[i] = e})
Has(seq, e) == \E i \in 1..Len(seq) : seq[i] = e
\* the first position of e in seq, 0 when absent
Pos(seq, e) == IF Has(seq, e) THEN CHOOSE i \in 1..Len(seq) : seq[i] = e /\ \A j \in 1..(i - 1) : seq[j] # e
               ELSE 0
Before(seq, a, b) == Has(seq, a) /\ Has(seq, b) /\ Pos(seq, a) < Pos(seq, b)

\* the ChargeResponses sent to callers and those stored in the ledger
ChargeResponsesOf(r) ==
    {resp[r][i].body : i \in {j \in 1..Len(resp[r]) : resp[r][j].kind = "charge"}}
AllChargeResponses ==
    UNION {ChargeResponsesOf(r) : r \in Requests}
        \cup {ledger[i].response : i \in 1..Len(ledger)}

\* C1: every ChargeResponse sent or stored has status blocked iff provider is null,
\* and status success or error iff provider is not null
C1_StatusMatchesProvider ==
    \A cr \in AllChargeResponses :
        /\ cr.status = "blocked" <=> cr.provider = NULL
        /\ cr.status \in {"success", "error"} <=> cr.provider # NULL

\* a blocked response and a routed response have both been sent and stored
C1_Witness ==
    /\ \E cr \in AllChargeResponses : cr.status = "blocked" /\ cr.provider = NULL
    /\ \E cr \in AllChargeResponses : cr.status = "success" /\ cr.provider = "stripe"
    /\ Len(ledger) = 2

\* the rules of the catalog whose predicate is true, in declaration order
RECURSIVE TriggeredFrom(_, _)
TriggeredFrom(i, request) ==
    IF i > Len(fraudRules) THEN <<>>
    ELSE (IF condition(i, request) THEN <<fraudRules[i]>> ELSE <<>>)
             \o TriggeredFrom(i + 1, request)

RECURSIVE WeightSum(_)
WeightSum(rules) == IF rules = <<>> THEN 0 ELSE Head(rules).weight.v + WeightSum(Tail(rules))

\* C2: calculateRisk returns score = min(S, 1.0), S the sum of the weights of the
\* rules whose predicate is true, and their names in declaration order
C2_ScoreIsCappedWeightSum ==
    probe.kind = "riskOut" =>
        LET hit == TriggeredFrom(1, probe.request)
            S == WeightSum(hit)
        IN  /\ probe.risk.score = Num(IF S < 1000 THEN S ELSE 1000)
            /\ probe.risk.triggeredRules = [i \in 1..Len(hit) |-> hit[i].ruleName]

\* C3: the score returned by calculateRisk is a number in [0, 1]
C3_ScoreInUnitInterval ==
    probe.kind = "riskOut" =>
        /\ probe.risk.score.t = "num"
        /\ probe.risk.score.v >= 0
        /\ probe.risk.score.v <= 1000

\* C4: for a numeric score s, routePayment gives stripe when s < 0.4, paypal when
\* 0.4 <= s < 0.5 and null when s >= 0.5
C4_RouteBands ==
    (probe.kind = "routeOut" /\ probe.score.t = "num") =>
        /\ probe.score.v < 400 => probe.provider = "stripe"
        /\ (probe.score.v >= 400 /\ probe.score.v < 500) => probe.provider = "paypal"
        /\ probe.score.v >= 500 => probe.provider = NULL

\* a score exactly at the first threshold has been routed to paypal
C4_Witness ==
    probe.kind = "routeOut" /\ probe.score = Num(400) /\ probe.provider = "paypal"

\* C5 as stated: routePayment returns null for NaN and for an infinite score
C5_NonFiniteBlocked ==
    (probe.kind = "routeOut" /\ probe.score.t # "num") => probe.provider = NULL

\* C5 as amended: routePayment returns null for NaN and for +Infinity, which satisfy
\* neither comparison; -Infinity satisfies the first one and is routed to stripe
C5_NaNAndPosInfinityBlocked ==
    probe.kind = "routeOut" =>
        /\ probe.score.t \in {"NaN", "Infinity"} => probe.provider = NULL
        /\ probe.score.t = "-Infinity" => probe.provider = "stripe"

\* NaN has been routed, to null
C5_Witness ==
    probe.kind = "routeOut" /\ probe.score = NaN /\ probe.provider = NULL

\* the schema reports at least one error for this body
FailsSchema(b) == Validated[b].error # {}

\* charge() ran the pipeline for request r (validation passed)
InPipeline(r) == Has(trace[r], "routePayment")

\* C6: simulatePayment is invoked at most once per charge and only after routePayment
\* returned a provider; when routing returned null it is not invoked and the status is blocked
C6_SimulateOnlyWhenRouted ==
    \A r \in Requests :
        /\ Count(trace[r], "simulatePayment") <= 1
        /\ Has(trace[r], "simulatePayment") =>
              /\ Before(trace[r], "routePayment", "simulatePayment")
              /\ loc[r].provider # NULL
        /\ (InPipeline(r) /\ loc[r].provider = NULL) =>
              /\ ~Has(trace[r], "simulatePayment")
              /\ loc[r].status = "blocked"

\* one charge was routed and simulated, another was blocked without simulation
C6_Witness ==
    \E r1, r2 \in Requests :
        /\ Has(trace[r1], "simulatePayment") /\ loc[r1].provider = "stripe"
        /\ InPipeline(r2) /\ loc[r2].provider = NULL /\ pc[r2] = "done"

\* C7: 200 exactly for status success, 403 exactly for blocked, 500 for error,
\* 400 when validation of the body fails
C7_HttpStatusCodes ==
    \A r \in Requests : \A i \in 1..Len(resp[r]) :
        LET a == resp[r][i] IN
        /\ a.kind = "charge" =>
              /\ a.code = 200 <=> a.body.status = "success"
              /\ a.code = 403 <=> a.body.status = "blocked"
              /\ a.body.status = "error" => a.code = 500
        /\ a.code = 200 => a.kind = "charge"
        /\ a.code = 403 => a.kind = "charge"
        /\ a.code = 400 <=> FailsSchema(reqBody[r])
        /\ FailsSchema(reqBody[r]) => i = 1

\* a simulated failure has been answered 500 and a success 200
C7_Witness ==
    \E r1, r2 \in Requests :
        /\ \E i \in 1..Len(resp[r1]) : resp[r1][i].body.status = "error" /\ resp[r1][i].code = 500
        /\ \E i \in 1..Len(resp[r2]) : resp[r2][i].body.status = "success" /\ resp[r2][i].code = 200

LargeAmountBody == Body(60000, usd, card_123, user_example_com)

\* C8: amount 60000, source card_123, email user@example.com triggers exactly
\* Large Amount, scores 0.3, is routed to stripe and ends success or error
C8_LargeAmountRoutedToStripe ==
    \A r \in Requests :
        (reqBody[r] = LargeAmountBody /\ InPipeline(r)) =>
            /\ loc[r].riskAssessment.triggeredRules = <<"Large Amount">>
            /\ loc[r].riskAssessment.score = Num(300)
            /\ loc[r].provider = "stripe"
            /\ loc[r].status \in {"success", "error"}

PipelineEvents ==
    {"calculateRisk", "generateTransactionId", "routePayment", "simulatePayment",
     "generateDescriptionFromTags", "generateContent", "explanationResolved",
     "explanationRejected", "storeTransaction"}

\* C9: when validation fails, charge() responds 400, makes none of the pipeline's
\* calls and leaves the ledger unchanged
C9_InvalidNeverReachesPipeline ==
    [][\A r \in Requests :
          (pc[r] = "idle" /\ pc'[r] # "idle" /\ FailsSchema(reqBody'[r])) =>
              /\ resp'[r] = <<InvalidResponse>>
              /\ pc'[r] = "done"
              /\ \A i \in 1..Len(trace'[r]) : trace'[r][i] \notin PipelineEvents
              /\ ledger' = ledger]_vars

\* a request failed validation after another charge had been stored
C9_Witness ==
    \E r \in Requests :
        /\ pc[r] = "done"
        /\ FailsSchema(reqBody[r])
        /\ resp[r] = <<InvalidResponse>>
        /\ Len(ledger) = 1

\* the order in which the claim names the events of one request
Rank(e) ==
    CASE e = "calculateRisk" -> 1
      [] e = "routePayment" -> 2
      [] e = "simulatePayment" -> 3
      [] e = "explanationResolved" -> 4
      [] e = "storeTransaction" -> 5
      [] e = "respond" -> 6
      [] OTHER -> 0

\* C10: the events of a request are ordered risk assessment, routing (and simulation),
\* explanation resolved, store, response; the store never precedes the resolved
\* explanation and the response never precedes the store
C10_PipelineOrder ==
    \A r \in Requests :
        /\ \A i, j \in 1..Len(trace[r]) :
              (i < j /\ Rank(trace[r][i]) > 0 /\ Rank(trace[r][j]) > 0) =>
                  Rank(trace[r][i]) < Rank(trace[r][j])
        /\ Has(trace[r], "storeTransaction") =>
              Before(trace[r], "explanationResolved", "storeTransaction")
        /\ (\E i \in 1..Len(ledger) : ledger[i].metadata.ipAddress = r) =>
              Has(trace[r], "explanationResolved")
        /\ ChargeResponsesOf(r) # {} => Before(trace[r], "storeTransaction", "respond")
        /\ pc[r] = "awaiting" =>
              /\ resp[r] = <<>>
              /\ ~Has(trace[r], "storeTransaction")
              /\ \A i \in 1..Len(ledger) : ledger[i].metadata.ipAddress # r

\* one request is still awaiting its explanation while a later one has stored and answered
C10_Witness ==
    \E r1, r2 \in Requests :
        /\ pc[r1] = "awaiting"
        /\ pc[r2] = "done"
        /\ ChargeResponsesOf(r2) # {}
        /\ \E i \in 1..Len(ledger) : ledger[i].metadata.ipAddress = r2
        /\ Before(trace[r2], "explanationResolved", "storeTransaction")

-----------------------------------------------------------------------------
(* The ledger *)

IdsOf(led) == {led[i].id : i \in 1..Len(led)}
PosOfId(led, id) == CHOOSE i \in 1..Len(led) : led[i].id = id

\* C11: after any sequence of ledger operations, storeTransaction(t) returns
\* t, and getTransactionById(t.id) called right after it returns exactly t,
\* the record most recently stored for that id.
C11_StoreThenGet ==
    probe.op = "store" =>
        /\ probe.returnedT = <<probe.t>>
        /\ getTransactionById(ledger, probe.t.id) = <<probe.t>>

\* a store over a different record of the same id, after other operations
C11_Witness ==
    /\ probe.op = "store"
    /\ probe.calls >= 3
    /\ hasTransaction(probe.before, probe.t.id)
    /\ getTransactionById(probe.before, probe.t.id) # <<probe.t>>
    /\ getTransactionById(ledger, probe.t.id) = <<probe.t>>

\* C12: after any sequence of storeTransaction, deleteTransaction and
\* clearAllTransactions calls, getTransactionCount() equals the number of
\* distinct ids currently stored, which equals the length of
\* getAllTransactions().
C12_CountIsDistinctIds ==
    /\ getTransactionCount(ledger) = Cardinality(IdsOf(ledger))
    /\ getTransactionCount(ledger) = Len(getAllTransactions(ledger))
    /\ IdsOf(ledger) = {id \in LedgerIds : hasTransaction(ledger, id)}

\* an id stored twice, with a deletion and a clear among the calls
C12_Witness ==
    /\ probe.op = "store"
    /\ hasTransaction(probe.before, probe.id)
    /\ probe.cleared
    /\ probe.removed >= 1
    /\ getTransactionCount(ledger) = 1

\* C13 as stated: after any sequence of storeTransaction and
\* deleteTransaction calls, the ledger size equals the number of distinct ids
\* ever stored minus the number of deletions (counted as the deleteTransaction
\* calls made, or as those that removed a record).
C13_SizeIsEverStoredMinusDeletions ==
    ~probe.cleared =>
        \/ getTransactionCount(ledger) = Cardinality(probe.everStored) - probe.deleteCalls
        \/ getTransactionCount(ledger) = Cardinality(probe.everStored) - probe.removed

\* C13 amended: after any sequence of storeTransaction and deleteTransaction
\* calls, the ledger size equals the number of storeTransaction calls whose
\* id was not stored at the time minus the number of deleteTransaction calls
\* that returned true.
C13_SizeIsInsertedMinusRemoved ==
    ~probe.cleared =>
        getTransactionCount(ledger) = probe.inserted - probe.removed

\* an id stored, deleted and stored again, and a deletion that found nothing
C13_Witness ==
    /\ ~probe.cleared
    /\ probe.removed >= 1
    /\ probe.deleteCalls > probe.removed
    /\ probe.inserted > Cardinality(probe.everStored)

\* C14: storeTransaction(t) with an id that is already stored replaces the
\* record for that id in place: the count is unchanged, the position of that
\* id in getAllTransactions() is unchanged, and every other id's record and
\* position are unchanged.
C14_OverwriteInPlace ==
    (probe.op = "store" /\ hasTransaction(probe.before, probe.t.id)) =>
        LET old == getAllTransactions(probe.before)
            new == getAllTransactions(ledger)
        IN  /\ getTransactionCount(ledger) = getTransactionCount(probe.before)
            /\ PosOfId(new, probe.t.id) = PosOfId(old, probe.t.id)
            /\ new[PosOfId(new, probe.t.id)] = probe.t
            /\ \A id \in IdsOf(old) \ {probe.t.id} :
                  /\ hasTransaction(ledger, id)
                  /\ PosOfId(new, id) = PosOfId(old, id)
                  /\ new[PosOfId(new, id)] = old[PosOfId(old, id)]

\* a different record stored over an id that has another id after it
C14_Witness ==
    /\ probe.op = "store"
    /\ hasTransaction(probe.before, probe.t.id)
    /\ getTransactionById(probe.before, probe.t.id) # <<probe.t>>
    /\ getTransactionCount(probe.before) = 3
    /\ PosOfId(getAllTransactions(probe.before), probe.t.id) = 2
    /\ getTransactionById(ledger, probe.t.id) = <<probe.t>>

\* C15: deleteTransaction(id) returns true if and only if id was stored;
\* afterwards getTransactionById(id) is absent and hasTransaction(id) is
\* false, while every other stored id keeps its record and its relative
\* enumeration order; deleting an id that is not stored leaves the ledger
\* unchanged.
C15_DeleteRemovesOnlyThatId ==
    probe.op = "delete" =>
        LET old == getAllTransactions(probe.before)
            new == getAllTransactions(ledger)
            others == IdsOf(old) \ {probe.id}
        IN  /\ probe.returnedB <=> hasTransaction(probe.before, probe.id)
            /\ getTransactionById(ledger, probe.id) = <<>>
            /\ ~hasTransaction(ledger, probe.id)
            /\ IdsOf(new) = others
            /\ \A a \in others :
                  getTransactionById(ledger, a) = getTransactionById(probe.before, a)
            /\ \A a, b \in others :
                  PosOfId(old, a) < PosOfId(old, b) => PosOfId(new, a) < PosOfId(new, b)
            /\ ~hasTransaction(probe.before, probe.id) => ledger = probe.before

\* the first of three stored ids deleted, the other two staying in order
C15_Witness ==
    /\ probe.op = "delete"
    /\ probe.returnedB
    /\ getTransactionCount(probe.before) = 3
    /\ PosOfId(getAllTransactions(probe.before), probe.id) = 1
    /\ getTransactionCount(ledger) = 2
    /\ ~hasTransaction(ledger, probe.id)

\* a deletion of an id that is not stored, from a ledger that holds others
C15_WitnessAbsent ==
    /\ probe.op = "delete"
    /\ ~probe.returnedB
    /\ getTransactionCount(ledger) >= 1

-----------------------------------------------------------------------------
(* The explanation *)

\* the responses of request r that came from the catch block of charge()
InternalErrorsOf(r) == {i \in 1..Len(resp[r]) : resp[r][i].kind = "internal"}

\* C16: with the fallback enabled, generateDescriptionFromTags never rejects:
\* when the external call throws, returns empty text, or no client is
\* configured, it returns the templated explanation selected by status.
C16_FallbackNeverRejects ==
    \A r \in Requests :
        (fallbackToSimulated /\ pc[r] = "done" /\ InPipeline(r)) =>
            /\ InternalErrorsOf(r) = {}
            /\ Has(trace[r], "explanationResolved")
            /\ \A c \in ChargeResponsesOf(r) :
                  /\ c.explanation.source = "simulated" => c.explanation.template = c.status
                  /\ ~genAI => c.explanation.source = "simulated"

\* the part of C16 about the external call itself: once generateContent was
\* called, with the fallback enabled the charge is answered with an explanation
C16_ExternalFailureFallsBack ==
    \A r \in Requests :
        (fallbackToSimulated /\ pc[r] = "done" /\ Has(trace[r], "generateContent")) =>
            /\ InternalErrorsOf(r) = {}
            /\ \A c \in ChargeResponsesOf(r) :
                  c.explanation.source = "simulated" => c.explanation.template = c.status

\* the external call failed or answered nothing and the template was returned
C16_ExternalFailureWitness ==
    \E r \in Requests :
        /\ fallbackToSimulated
        /\ Has(trace[r], "generateContent")
        /\ \E c \in ChargeResponsesOf(r) :
              c.explanation.source = "simulated" /\ c.explanation.template = "blocked"

\* C17: with fallbackToSimulated = false, when the external call fails,
\* generateDescriptionFromTags rejects with the error 'LLM service unavailable
\* and fallback disabled' and returns no explanation: the charge is answered by
\* the catch block and nothing is stored.
C17_FallbackDisabledRejects ==
    [][\A r \in Requests :
          (~fallbackToSimulated /\ GeminiReject(r)) =>
              /\ loc'[r].error = LLMUnavailable
              /\ Has(trace'[r], "explanationRejected")
              /\ ~Has(trace'[r], "explanationResolved")
              /\ resp'[r] = Append(resp[r], InternalErrorResponse)
              /\ ChargeResponsesOf(r)' = {}
              /\ ledger' = ledger]_vars

\* the external call was made and failed with the fallback disabled
C17_Witness ==
    \E r \in Requests :
        /\ ~fallbackToSimulated
        /\ genAI
        /\ pc[r] = "done"
        /\ Has(trace[r], "generateContent")
        /\ loc[r].error = LLMUnavailable
        /\ InternalErrorsOf(r) # {}

\* the five inputs of an explanation call
Fingerprint(l) ==
    <<l.chargeRequest, l.riskAssessment.score, l.provider, l.status,
      l.riskAssessment.triggeredRules>>

\* the explanation call of request r returned the text of the external call
AnsweredByGemini(r) ==
    /\ pc[r] = "done"
    /\ Has(trace[r], "generateContent")
    /\ \E c \in ChargeResponsesOf(r) : c.explanation.source = "gemini"

\* C18: of two explanation calls with identical (request, score, provider,
\* status, triggered rules) the second returns the cached value without
\* invoking the external call again: a call made after another call with the
\* same fingerprint has returned the external text does not reach
\* generateContent.
C18_ExternalCallOncePerFingerprint ==
    [][\A r, q \in Requests :
          (/\ r # q
           /\ pc[r] = "idle" /\ pc'[r] # "idle" /\ InPipeline(r)'
           /\ AnsweredByGemini(q)
           /\ Fingerprint(loc'[r]) = Fingerprint(loc[q])) =>
              ~Has(trace'[r], "generateContent")]_vars

-----------------------------------------------------------------------------
(* The rule catalog *)

\* calculateRisk for each request it is probed with, evaluated once
RiskOf == [q \in ProbeRequests |-> calculateRisk(q)]

\* C19: the score of calculateRisk is monotonic non-decreasing in the number
\* of satisfied rule predicates: of any two requests, the one that satisfies
\* more rule predicates has a score at least that of the other.
C19_ScoreMonotonicInRuleCount ==
    probe.kind = "riskOut" =>
        \A q \in ProbeRequests :
            Len(RiskOf[q].triggeredRules) > Len(probe.risk.triggeredRules) =>
                JsLe(probe.risk.score, RiskOf[q].score)

\* the 'Large Amount' rule is among the rules calculateRisk reports
LargeAmountTriggered(risk) == Has(risk.triggeredRules, "Large Amount")

C20_WitnessBelow ==
    /\ probe.kind = "riskOut"
    /\ probe.request.amount = 99999
    /\ LargeAmountTriggered(probe.risk)

\* the 'Very Large Amount' rule is among the rules calculateRisk reports
VeryLargeAmountTriggered(risk) == Has(risk.triggeredRules, "Very Large Amount")

-----------------------------------------------------------------------------
(* The templated explanation *)

\* the names in `names` all occur in the list an explanation gives
ListsEvery(explanation, names) ==
    \A i \in 1..Len(names) : Has(explanation.rules, names[i])

\* C22: every templated fallback explanation contains the formatted amount;
\* for status 'success' it also names the provider, and for status 'blocked'
\* it lists every triggered rule name passed in.
C22_TemplateContents ==
    (probe.kind = "explainOut" /\ ~probe.result.thrown) =>
        LET e == probe.result.value
            f == formatAmount(probe.request.amount, probe.request.currency)
        IN  /\ e.source = "simulated"
            /\ e.template = probe.status
            /\ ~f.thrown
            /\ e.amountFormatted = f.value
            /\ e.amountFormatted.units = probe.request.amount
            /\ e.amountFormatted.currency = toUpperCase(probe.request.currency)
            /\ probe.status = "success" => e.provider = probe.provider
            /\ probe.status = "blocked" => ListsEvery(e, probe.rules)

\* a blocked template for three triggered rules, the amount given in lower-case currency
C22_Witness ==
    /\ probe.kind = "explainOut"
    /\ ~probe.result.thrown
    /\ probe.status = "blocked"
    /\ Len(probe.rules) = 3
    /\ probe.request.amount = 60000
    /\ probe.result.value.rules = probe.rules

\* a success template that names its provider
C22_WitnessSuccess ==
    /\ probe.kind = "explainOut"
    /\ ~probe.result.thrown
    /\ probe.status = "success"
    /\ probe.provider = "paypal"
    /\ probe.result.value.provider = "paypal"

-----------------------------------------------------------------------------
(* The controller *)

\* a call of charge() for request r threw and the catch block ran
Threw(r) == Has(trace[r], "threw") \/ Has(trace[r], "explanationRejected")

\* C23: with fallbackToSimulated = false, generateDescriptionFromTags never
\* returns the templated fallback explanation: when the external call throws,
\* returns empty text, or no client is available, the call rejects.
C23_DisabledFallbackNeverTemplates ==
    \A r \in Requests :
        ~fallbackToSimulated =>
            \A c \in ChargeResponsesOf(r) : c.explanation.source # "simulated"

\* C24: when a pipeline step of charge() throws (risk assessment, routing,
\* the explanation call, or the ledger store), the caller receives HTTP 500
\* with the generic body, exactly one response is sent, and no transaction for
\* that request is added to the ledger.
C24_ThrowGivesGeneric500 ==
    [][\A r \in Requests :
          (pc[r] # "done" /\ Threw(r)') =>
              /\ pc'[r] = "done"
              /\ Len(resp'[r]) = 1
              /\ resp'[r][1].code = 500
              /\ resp'[r][1].kind = "internal"
              /\ resp'[r][1].body = NoChargeResponse
              /\ ledger' = ledger
              /\ \A i \in 1..Len(ledger') : ledger'[i].metadata.ipAddress # r]_vars

\* the ledger store threw for one request after another charge was stored
C24_Witness ==
    \E r \in Requests :
        /\ pc[r] = "done"
        /\ Has(trace[r], "storeTransaction")
        /\ Has(trace[r], "threw")
        /\ Len(resp[r]) = 1
        /\ Len(ledger) >= 1

\* risk assessment, routing and the explanation call threw
C24_WitnessSteps ==
    \E r1, r2 \in Requests :
        /\ trace[r1] = <<"validate", "calculateRisk", "threw", "respond">>
        /\ Has(trace[r2], "explanationRejected")

\* some step of request r is possible: it can start, or its external call can settle
CanStart(r) ==
    ENABLED (\E body \in ValidBodies, tid \in TransactionIds, ok \in BOOLEAN :
                 ChargeBegin(r, body, tid, ok))
CanSettle(r) ==
    /\ ENABLED (\E text \in GeminiAnswers : GeminiResolve(r, text))
    /\ ENABLED GeminiReject(r)

\* while request r stays suspended, nothing of it changes
SuspendedUntouched(r) ==
    (pc[r] = "awaiting" /\ pc'[r] = "awaiting") =>
        /\ loc'[r] = loc[r]
        /\ resp'[r] = resp[r]
        /\ trace'[r] = trace[r]

\* when the suspended request r completes, what it stores and answers is made
\* of its own locals and its own explanation
CompletesFromOwnLocals(r) ==
    (pc[r] = "awaiting" /\ pc'[r] = "done" /\ ~Has(trace'[r], "explanationRejected")) =>
        LET l == loc[r]
            sim == generateSimulatedExplanation(l.chargeRequest, l.riskAssessment.score,
                       l.provider, l.status, l.riskAssessment.triggeredRules)
        IN  /\ Len(resp'[r]) = 1
            /\ resp'[r][1].kind = "charge"
            /\ resp'[r][1].body.transactionId = l.transactionId
            /\ resp'[r][1].body.provider = l.provider
            /\ resp'[r][1].body.status = l.status
            /\ resp'[r][1].body.riskScore = l.riskAssessment.score
            /\ resp'[r][1].body.explanation \in {GeminiText, sim.value}
            /\ getTransactionById(ledger', l.transactionId) =
                  <<[id |-> l.transactionId, request |-> l.chargeRequest,
                     response |-> resp'[r][1].body, metadata |-> [ipAddress |-> r]]>>

\* C25: two concurrent charge requests never block each other on the external
\* explanation call: whenever one request is suspended awaiting its
\* explanation, every other request can start, and settle its own call, and
\* the suspended request's later store and response are unaffected by it.
C25_NoBlockingOnExplanation ==
    /\ [](\A r1, r2 \in Requests :
            (r1 # r2 /\ pc[r1] = "awaiting") =>
                /\ pc[r2] = "idle" => CanStart(r2)
                /\ pc[r2] = "awaiting" => CanSettle(r2))
    /\ [][\A r \in Requests : SuspendedUntouched(r) /\ CompletesFromOwnLocals(r)]_vars

\* one request is suspended while another, which made its own external call,
\* has stored its transaction and answered
C25_Witness ==
    \E r1, r2 \in Requests :
        /\ r1 # r2
        /\ pc[r1] = "awaiting"
        /\ CanSettle(r1)
        /\ pc[r2] = "done"
        /\ Has(trace[r2], "generateContent")
        /\ ChargeResponsesOf(r2) # {}
        /\ getTransactionById(ledger, loc[r2].transactionId) # <<>>

\* both completed, the one that made the external call stored last
C25_WitnessCompleted ==
    \E r1, r2 \in Requests :
        /\ r1 # r2
        /\ pc[r1] = "done" /\ pc[r2] = "done"
        /\ Has(trace[r1], "generateContent")
        /\ ChargeResponsesOf(r1) # {} /\ ChargeResponsesOf(r2) # {}
        /\ Len(ledger) = 2
        /\ ledger[1].metadata.ipAddress = r2
        /\ ledger[2].metadata.ipAddress = r1

\* request r completes the pipeline in this step
Completes(r) == pc[r] # "done" /\ pc'[r] = "done" /\ Has(trace'[r], "storeTransaction")

\* C26: for every charge that completes the pipeline, the transaction stored
\* in the ledger has id equal to response.transactionId, its request equals
\* the validated request, and its response is exactly the ChargeResponse sent
\* to the caller.
C26_StoredIsWhatWasSent ==
    [][\A r \in Requests :
          (Completes(r) /\ ~Has(trace'[r], "threw")) =>
              /\ Len(resp'[r]) = 1
              /\ resp'[r][1].kind = "charge"
              /\ LET sent == resp'[r][1].body
                     stored == getTransactionById(ledger', sent.transactionId)
                 IN  /\ stored # <<>>
                     /\ stored[1].id = sent.transactionId
                     /\ stored[1].request = Validated[reqBody'[r]].value
                     /\ stored[1].response = sent
                     /\ stored[1].metadata.ipAddress = r]_vars

\* a completed charge whose validated request differs from the body received
\* (the schema upper-cases the currency), answered with the external text
C26_Witness ==
    \E r \in Requests :
        /\ pc[r] = "done"
        /\ ChargeResponsesOf(r) # {}
        /\ reqBody[r].currency = <<<<"u", "s", "d">>>>
        /\ \E i \in 1..Len(ledger) :
              /\ ledger[i].metadata.ipAddress = r
              /\ ledger[i].request.currency = usd
              /\ ledger[i].response.explanation = GeminiText
              /\ ledger[i].response = resp[r][1].body

\* C27: for every charge that completes the pipeline, the response status is
\* 'blocked' if and only if the response riskScore is at least 0.5; every
\* response with riskScore below 0.5 has a provider and status 'success' or
\* 'error'.
C27_BlockedIffScoreAtLeastHalf ==
    \A c \in AllChargeResponses :
        /\ c.status = "blocked" <=> JsLe(Num(500), c.riskScore)
        /\ JsLt(c.riskScore, Num(500)) =>
              (c.provider # NULL /\ c.status \in {"success", "error"})

\* the requests whose charge completed the pipeline
CompletedCharges == {r \in Requests : pc[r] = "done" /\ Has(trace[r], "storeTransaction")}

\* C28: after any interleaving of N charge requests that each completed the
\* pipeline, the ledger holds exactly N transactions, one per request: no
\* completed charge's record is overwritten by another charge.
C28_OneRecordPerCharge ==
    /\ getTransactionCount(ledger) = Cardinality(CompletedCharges)
    /\ \A r \in CompletedCharges :
          \E i \in 1..Len(ledger) : ledger[i].metadata.ipAddress = r

\* request r has been answered exactly once
AnsweredOnce(r) == pc[r] = "done" /\ Len(resp[r]) = 1

\* C29: every charge request eventually receives exactly one HTTP response,
\* provided the external call eventually resolves or rejects; as long as that
\* call has not settled, the request has not responded and has stored no
\* transaction.
C29_EventuallyOneResponse ==
    /\ \A r \in Requests : (pc[r] = "awaiting") ~> AnsweredOnce(r)
    /\ [](\A r \in Requests :
            /\ Len(resp[r]) <= 1
            /\ pc[r] = "done" <=> Len(resp[r]) = 1
            /\ pc[r] = "awaiting" =>
                  /\ resp[r] = <<>>
                  /\ \A i \in 1..Len(ledger) : ledger[i].metadata.ipAddress # r)

\* a request that waited for the external call has been answered once, by
\* the catch block
C29_Witness ==
    \E r \in Requests :
        /\ Has(trace[r], "generateContent")
        /\ Has(trace[r], "explanationRejected")
        /\ AnsweredOnce(r)

\* C30: with the fallback enabled, every charge request that passes
\* validation completes the pipeline: it yields a ChargeResponse with status
\* success, error or blocked and a stored transaction, never the generic
\* internal-error response, even when the currency code is one the amount
\* formatter rejects.
C30_ValidatedChargeCompletes ==
    \A r \in Requests :
        (fallbackToSimulated /\ pc[r] = "done" /\ ~FailsSchema(reqBody[r])) =>
            /\ Len(resp[r]) = 1
            /\ resp[r][1].kind = "charge"
            /\ resp[r][1].body.status \in {"success", "error", "blocked"}
            /\ Has(trace[r], "storeTransaction")

=============================================================================
